---- MODULE Spec2Model ----
(***************************************************************************)
(* Model of acls/manage_datalake_acls.py: the batch driver process_csv,    *)
(* the per-request coroutine apply_acls_to_path, the ACL text helpers and  *)
(* the backup writer.                                                      *)
(*                                                                         *)
(* A Python string is a sequence of tokens.  The separator characters the  *)
(* program splits on (",", ":" and "/") are tokens of their own; every     *)
(* other token is an indivisible run of characters ("group", "r-x", an     *)
(* object id).  split, join, strip and startswith work on these sequences  *)
(* as the Python methods work on characters.                               *)
(***************************************************************************)
EXTENDS Integers, Sequences, FiniteSets, TLC

(* ---------------------------------------------------------------- bounds *)

\* rows of the CSV file
MaxRows == 2
\* storage, file and directory-service faults injected in one batch run
MaxFaults == 1

(* ------------------------------------------------------- string helpers *)

Range(s) == {s[i] : i \in DOMAIN s}

\* str.startswith
StartsWith(s, prefix) ==
    /\ Len(s) >= Len(prefix)
    /\ SubSeq(s, 1, Len(prefix)) = prefix

\* str.split(sep): the pieces between the tokens equal to sep, always at
\* least one piece, "".split(sep) = [""]
Split(s, sep) ==
    LET \* the positions of the separators, in order
        at == SelectSeq([i \in 1..Len(s) |-> i], LAMBDA i : s[i] = sep)
        n == Len(at)
    IN  [m \in 1..(n + 1) |->
            SubSeq(s, IF m = 1 THEN 1 ELSE at[m - 1] + 1,
                      IF m = n + 1 THEN Len(s) ELSE at[m] - 1)]

\* sep.join(pieces)
RECURSIVE Join(_, _)
Join(pieces, sep) ==
    IF pieces = <<>> THEN <<>>
    ELSE IF Len(pieces) = 1 THEN pieces[1]
    ELSE pieces[1] \o <<sep>> \o Join(Tail(pieces), sep)

\* str.strip(ch): drops the leading and the trailing tokens equal to ch
RECURSIVE LStrip(_, _)
LStrip(s, ch) == IF s # <<>> /\ s[1] = ch THEN LStrip(Tail(s), ch) ELSE s

RECURSIVE RStrip(_, _)
RStrip(s, ch) ==
    IF s # <<>> /\ s[Len(s)] = ch THEN RStrip(SubSeq(s, 1, Len(s) - 1), ch) ELSE s

Strip(s, ch) == RStrip(LStrip(s, ch), ch)

\* str.upper and str.lower on the tokens the inputs are made of
UpperTok(t) ==
    CASE t = "r" -> "R"
      [] t = "w" -> "W"
      [] t = "true" -> "TRUE"
      [] t = "True" -> "TRUE"
      [] t = "false" -> "FALSE"
      [] t = "Pro" -> "PRO"
      [] t = "pro" -> "PRO"
      [] t = "qa" -> "QA"
      [] OTHER -> t

LowerTok(t) ==
    CASE t = "R" -> "r"
      [] t = "W" -> "w"
      [] t = "True" -> "true"
      [] t = "TRUE" -> "true"
      [] t = "Pro" -> "pro"
      [] t = "PRO" -> "pro"
      [] t = "QA" -> "qa"
      [] OTHER -> t

Upper(s) == [i \in DOMAIN s |-> UpperTok(s[i])]
Lower(s) == [i \in DOMAIN s |-> LowerTok(s[i])]

\* [acl for acl in entries if not acl.startswith(prefix)]
RECURSIVE NotStartingWith(_, _)
NotStartingWith(entries, prefix) ==
    IF entries = <<>> THEN <<>>
    ELSE (IF StartsWith(entries[1], prefix) THEN <<>> ELSE <<entries[1]>>)
         \o NotStartingWith(Tail(entries), prefix)

\* dict.get(key, default) on a function
Get(d, key, default) == IF key \in DOMAIN d THEN d[key] ELSE default

(* ------------------------------------------------------------ ACL codec *)

\* parse_permission: permissions.get(permission.upper(), 'r-x')
parse_permission(permission) ==
    LET permissions == (<<"R">> :> <<"r-x">>) @@ (<<"W">> :> <<"rwx">>)
    IN  Get(permissions, Upper(permission), <<"r-x">>)

\* the test both parse_acls and backup_acls_to_csv apply to one entry
IsGroupEntry(entry) ==
    /\ StartsWith(entry, <<"group", ":">>)
    /\ Len(Split(entry, ":")) >= 4

\* parse_acls: group id -> permissions, a later entry replacing an earlier
RECURSIVE ParseEntries(_, _)
ParseEntries(entries, acl_dict) ==
    IF entries = <<>> THEN acl_dict
    ELSE LET entry == entries[1]
             parts == Split(entry, ":")
         IN  IF IsGroupEntry(entry)
             THEN ParseEntries(Tail(entries),
                               (parts[2] :> parts[4]) @@ acl_dict)
             ELSE ParseEntries(Tail(entries), acl_dict)

parse_acls(acl_string) ==
    IF acl_string = <<>> THEN <<>>
    ELSE ParseEntries(Split(acl_string, ","), <<>>)

\* f"group:{object_id}:{permission}"
GroupAcl(object_id, permission) ==
    <<"group", ":">> \o object_id \o <<":">> \o permission

\* GroupPrefix with the scope of a user entry
GroupPrefix_user_scope(object_id) == <<"user", ":">> \o object_id \o <<":">>

\* f"group:{object_id}:"
GroupPrefix(object_id) == <<"group", ":">> \o object_id \o <<":">>

\* existing_acls without the filter: every entry is kept
existing_acls_unfiltered(current_acls, object_id) == Split(current_acls, ",")

\* the entries of the current ACL text the program keeps when it rewrites
\* the entry of object_id
existing_acls(current_acls, object_id) ==
    NotStartingWith(Split(current_acls, ","), GroupPrefix(object_id))

\* updated_acls appending to the text as it is
updated_acls_appending(current_acls, new_acl, object_id) ==
    IF current_acls # <<>> THEN current_acls \o <<",">> \o new_acl ELSE new_acl

\* updated_acls with the new entry first
updated_acls_prepending(current_acls, new_acl, object_id) ==
    IF current_acls # <<>>
    THEN Join(<<new_acl>> \o existing_acls(current_acls, object_id), ",")
    ELSE new_acl

\* the ACL text the program writes: the kept entries, then the new entry
updated_acls(current_acls, new_acl, object_id) ==
    IF current_acls # <<>>
    THEN LET existing == existing_acls(current_acls, object_id)
         IN  IF existing # <<>> THEN Join(existing \o <<new_acl>>, ",")
             ELSE new_acl
    ELSE new_acl

(* ------------------------------------------------- the storage service *)

\* A directory is named by <<storage account, container, path in container>>.
\* store maps every existing directory to its ACL text.

\* Python's truth value of a string: '' is false
Truthy(s) == s # <<>>

\* path or 'root'
OrRoot(path) == IF Truthy(path) THEN path ELSE <<"root">>

\* dir is directory top or lies below it
IsUnder(top, dir) ==
    /\ dir[1] = top[1]
    /\ dir[2] = top[2]
    /\ \/ top[3] = <<>>
       \/ dir[3] = top[3]
       \/ StartsWith(dir[3], top[3] \o <<"/">>)

\* the entries of an ACL text
Entries(acl) == IF acl = <<>> THEN <<>> ELSE Split(acl, ",")

\* what identifies an entry to the service: its scope and its identity
EntryKey(entry) ==
    LET parts == Split(entry, ":")
    IN  IF Len(parts) >= 2 THEN <<parts[1], parts[2]>> ELSE <<entry>>

RECURSIVE NotKeyedIn(_, _)
NotKeyedIn(entries, keys) ==
    IF entries = <<>> THEN <<>>
    ELSE (IF EntryKey(entries[1]) \in keys THEN <<>> ELSE <<entries[1]>>)
         \o NotKeyedIn(Tail(entries), keys)

\* mode 'modify': the written entries replace the entries with their key,
\* every other entry of the directory stays
ModifiedAcl(old, acl) ==
    LET keys == {EntryKey(e) : e \in Range(Entries(acl))}
    IN  Join(NotKeyedIn(Entries(old), keys) \o Entries(acl), ",")

\* set_access_control_recursive(acl=..., mode=...) on directory dir: the
\* directory and every directory below it
set_access_control_recursive(st, dir, acl, mode) ==
    [d \in DOMAIN st |->
        IF IsUnder(dir, d)
        THEN IF mode = "set" THEN acl ELSE ModifiedAcl(st[d], acl)
        ELSE st[d]]

\* create_directory: the program takes the ACL of a new directory as ''
create_directory(st, dir) == (dir :> <<>>) @@ st

(* --------------------------------------------- the directory of groups *)

\* display name -> object id of the groups the directory service knows
Directory ==
    (<<"analysts">> :> <<"ga">>) @@ (<<"grupo_pro">> :> <<"gp">>)
    @@ (<<"grupo_dev">> :> <<"gd">>)

\* get_azure_ad_group_object_id: the id of the first match, None when the
\* group is not found and None when the query raises (ok = FALSE)
NoneId == <<>>

get_azure_ad_group_object_id(group_name, ok) ==
    IF ok /\ group_name \in DOMAIN Directory THEN Directory[group_name]
    ELSE NoneId

\* get_environment_group: the group name of the environment, 'grupo_dev'
\* for an environment that is not dev, pre or pro
env_group_name(environment) ==
    LET env_groups == (<<"dev">> :> <<"grupo_dev">>) @@ (<<"pre">> :> <<"grupo_pre">>)
                      @@ (<<"pro">> :> <<"grupo_pro">>)
    IN  Get(env_groups, Lower(environment), <<"grupo_dev">>)

(* ------------------------------------------------------------ the inputs *)

required_columns ==
    {"environment", "storage", "path", "group_name", "permission",
     "force_update", "force_propagation"}

\* one record of csv.DictReader; none holds the columns whose value is None
\* (the record's line was shorter than the header)
Row(environment, path, group_name, permission, force_update, force_propagation, none) ==
    [environment |-> <<environment>>, storage |-> <<"acct1">>, path |-> path,
     group_name |-> <<group_name>>, permission |-> <<permission>>,
     force_update |-> <<force_update>>,
     force_propagation |-> <<force_propagation>>, none |-> none]

PathRoot == <<"data">>
PathOne == <<"data", "/", "reports">>
PathTwo == <<"/", "data", "/", "team", "/", "reports", "/">>
PathThree == <<"data", "/", "team", "/", "sub", "/", "reports">>

\* force_propagation is varied on the container root, the one target that
\* has directories below it
RowSet ==
    {Row("Pro", PathRoot, "analysts", perm, fu, fp, {}) :
        perm \in {"R", "W"}, fu \in {"false", "True"}, fp \in {"false", "true"}}
    \cup {Row("Pro", p, "analysts", perm, fu, "false", {}) :
        p \in {PathOne, PathTwo, PathThree}, perm \in {"R", "W"},
        fu \in {"false", "True"}}
    \cup {Row("qa", PathTwo, "analysts", "w", "false", "false", {}),
          Row("Pro", PathTwo, "ghost", "R", "false", "false", {}),
          Row("Pro", PathTwo, "analysts", "W", "false", "TRUE", {}),
          Row("Pro", PathTwo, "analysts", "W", "false", "", {"force_propagation"}),
          Row("Pro", PathTwo, "analysts", "", "", "",
              {"permission", "force_update", "force_propagation"}),
          Row("Pro", PathTwo, "analysts", "W", "true", "false", {"environment"}),
          Row("Pro", <<>>, "analysts", "W", "true", "false", {"path"})}

\* the rows mixed batches are made of
MixRows ==
    {Row("Pro", PathOne, "analysts", "R", "false", "false", {}),
     Row("Pro", PathOne, "analysts", "W", "false", "false", {}),
     Row("Pro", PathOne, "grupo_dev", "W", "false", "false", {}),
     Row("Pro", PathTwo, "analysts", "W", "false", "", {"force_propagation"})}

\* the records of the CSV file: one row repeated, or a mix of rows
Batches ==
    {[i \in 1..MaxRows |-> r] : r \in RowSet} \cup [1..MaxRows -> MixRows]

\* the header line of the CSV file
Headers == {required_columns, required_columns \ {"force_update"}}

Dir(path) == <<<<"acct1">>, <<"data">>, path>>

AllDirs ==
    {Dir(<<>>), Dir(<<"reports">>), Dir(<<"team">>),
     Dir(<<"team", "/", "reports">>), Dir(<<"team", "/", "sub">>),
     Dir(<<"team", "/", "sub", "/", "reports">>)}

\* the directories that exist when the batch starts, besides the root of the
\* container
ExistSets ==
    {{Dir(<<>>), Dir(<<"team">>), Dir(<<"team", "/", "sub">>)},
     AllDirs}

\* the ACL text they carry: entries in the four-field form parse_acls reads;
\* an entry in the form this program writes comes from a request of the batch
InitAcls ==
    {<<"user", ":", ":", "rwx", ",", "group", ":", "ga", ":", "0", ":", "r-x">>,
     <<"group", ":", "ga", ":", "0", ":", "rwx", ",",
       "group", ":", "gp", ":", "0", ":", "r-x">>}

\* an empty container, or directories that all carry one ACL text
InitStores ==
    {[d \in {Dir(<<>>)} |-> <<>>]}
    \cup {[d \in X |-> acl] : X \in ExistSets, acl \in InitAcls}

(* -------------------------------------------------------------- the state *)

VARIABLES
    csv_file,         \* [header, records]: the CSV file given on the command line
    rows,             \* process_csv: the rows kept for processing
    main,             \* where process_csv is: "read", "run", "gather", "done", "raised"
    cur,              \* the task the event loop is running, an index of rows
    pc,               \* where that task is in apply_acls_to_path
    task,             \* the local variables of that task
    service_clients,  \* storage account -> its DataLakeServiceClient, named by
                      \* the task that created it
    store,            \* the storage service: directory -> ACL text
    backup_file,      \* the rows of the backup CSV file, in file order
    trace,            \* per task, the calls it made on the storage and the file
    outcome,          \* per task: "pending", "ok", "skipped", "failed", "raised"
    after,            \* after[k]: the store when task k ended, after[0]: at the start
    faults            \* faults injected so far

vars ==
    <<csv_file, rows, main, cur, pc, task, service_clients, store, backup_file,
      trace, outcome, after, faults>>

\* the locals of a task that has not assigned any
NoTask ==
    [force_update |-> FALSE, force_propagation |-> FALSE,
     group_object_id |-> <<>>, env_group_object_id |-> <<>>,
     path_parts |-> <<>>, container_name |-> <<>>, relative_path |-> <<>>,
     acl_permission |-> <<>>, parent_paths |-> <<>>, paths_to_backup |-> <<>>,
     current_acls |-> <<>>, parent_acls |-> <<>>, i |-> 0]

Init ==
    /\ csv_file \in [header : Headers, records : Batches]
    /\ store \in InitStores
    /\ rows = <<>>
    /\ main = "read"
    /\ cur = 0
    /\ pc = "none"
    /\ task = NoTask
    /\ service_clients = <<>>
    /\ backup_file = <<>>
    /\ trace = <<>>
    /\ outcome = <<>>
    /\ after = <<>>
    /\ faults = 0

(* ------------------------------------------------------------ process_csv *)

\* The event loop runs the tasks in the order process_csv created them, and
\* apply_acls_to_path holds no await: a task runs from its first line to its
\* return or its exception before the next task starts.

\* the row of the running task
row == rows[cur]

\* row[column] is None
IsNone(column) == column \in row.none

\* the directory of the running task's container with this relative path
TaskDir(path) == <<row.storage, task.container_name, path>>

\* one call of the running task on the storage service or the backup file
Call(op, role, path, acl, mode, res) ==
    [op |-> op, role |-> role, path |-> path, acl |-> acl, mode |-> mode,
     res |-> res]

Logged(calls) == [trace EXCEPT ![cur] = @ \o calls]

\* the running task ends with out, the storage being st; the loop goes on to
\* the next task, or back to process_csv after the last one
End(out, st) ==
    /\ outcome' = [outcome EXCEPT ![cur] = out]
    /\ after' = [after EXCEPT ![cur] = st]
    /\ task' = NoTask
    /\ cur' = cur + 1
    /\ IF cur < Len(rows)
       THEN pc' = "fields" /\ main' = main
       ELSE pc' = "none" /\ main' = "gather"

\* the reader keeps a row when every required column is a key of it; the keys
\* of a DictReader row are the names of the header line
KeepRow(header, r) == \A col \in required_columns : col \in header

\* process_csv up to the creation of the tasks
ReadCsv ==
    /\ main = "read"
    /\ rows' = SelectSeq(csv_file.records, LAMBDA r : KeepRow(csv_file.header, r))
    /\ trace' = [k \in 1..Len(rows') |-> <<>>]
    /\ outcome' = [k \in 1..Len(rows') |-> "pending"]
    /\ after' = [k \in 0..Len(rows') |-> IF k = 0 THEN store ELSE <<>>]
    /\ cur' = 1
    /\ IF rows' = <<>>
       THEN main' = "gather" /\ pc' = "none"
       ELSE main' = "run" /\ pc' = "fields"
    /\ UNCHANGED <<csv_file, task, service_clients, store, backup_file, faults>>

\* await asyncio.gather(*tasks): the exception of a task that raised is raised
\* in process_csv, after every task has run
Gather ==
    /\ main = "gather"
    /\ main' = IF \E k \in DOMAIN outcome : outcome[k] = "raised"
               THEN "raised" ELSE "done"
    /\ UNCHANGED <<csv_file, rows, cur, pc, task, service_clients, store,
                   backup_file, trace, outcome, after, faults>>

(* ----------------------------------------------------- apply_acls_to_path *)

\* a fault may be injected while the budget lasts
CanFail == faults < MaxFaults

\* the row's fields; .lower() on None raises outside every try
ReadFields ==
    /\ main = "run" /\ pc = "fields"
    /\ IF IsNone("force_update") \/ IsNone("force_propagation")
       THEN /\ End("raised", store)
            /\ UNCHANGED <<service_clients>>
       ELSE /\ task' = [NoTask EXCEPT
                   !.force_update = (Lower(row.force_update) = <<"true">>),
                   !.force_propagation = (Lower(row.force_propagation) = <<"true">>)]
            /\ pc' = "client"
            /\ UNCHANGED <<main, cur, outcome, after, service_clients>>
    /\ UNCHANGED <<csv_file, rows, store, backup_file, trace, faults>>

\* NeedsClient without the test
NeedsClient_always(storage_account_name, clients) == TRUE

\* storage_account_name not in service_clients
NeedsClient(storage_account_name, clients) ==
    storage_account_name \notin DOMAIN clients

\* the DataLakeServiceClient of the storage account, created on first use; a
\* failure to create it ends the request and stores nothing
InitClient ==
    /\ main = "run" /\ pc = "client"
    /\ \/ /\ ~NeedsClient(row.storage, service_clients)
          /\ pc' = "group"
          /\ UNCHANGED <<main, cur, task, outcome, after, service_clients, faults>>
       \/ /\ NeedsClient(row.storage, service_clients)
          /\ service_clients' =
                [a \in DOMAIN service_clients \cup {row.storage} |->
                    IF a = row.storage THEN cur ELSE service_clients[a]]
          /\ pc' = "group"
          /\ UNCHANGED <<main, cur, task, outcome, after, faults>>
       \/ /\ NeedsClient(row.storage, service_clients)
          /\ CanFail
          /\ faults' = faults + 1
          /\ End("skipped", store)
          /\ UNCHANGED <<service_clients>>
    /\ UNCHANGED <<csv_file, rows, store, backup_file, trace>>

\* the text an f-string makes of a field
Formatted(column) == IF IsNone(column) THEN <<"None">> ELSE row[column]

\* the lookup of a group name as the task's trace records it
Lookup(role, group_name, object_id) ==
    Call("lookup", role, group_name, object_id, "",
         IF object_id = NoneId THEN "none" ELSE "ok")

\* Resolved without the test
Resolved_unchecked(object_id) == TRUE

\* the request goes on with this object id: not (not object_id)
Resolved(object_id) == Truthy(object_id)

\* group_name -> object id; no id ends the request
ResolveGroup ==
    /\ main = "run" /\ pc = "group"
    /\ \E ok \in BOOLEAN :
        LET group_object_id ==
                get_azure_ad_group_object_id(Formatted("group_name"), ok)
        IN  /\ ok \/ (CanFail /\ Formatted("group_name") \in DOMAIN Directory)
            /\ faults' = IF ok THEN faults ELSE faults + 1
            /\ trace' = Logged(<<Lookup("group", Formatted("group_name"),
                                        group_object_id)>>)
            /\ IF ~Resolved(group_object_id)
               THEN End("skipped", store)
               ELSE /\ task' = [task EXCEPT !.group_object_id = group_object_id]
                    /\ pc' = "split"
                    /\ UNCHANGED <<main, cur, outcome, after>>
    /\ UNCHANGED <<csv_file, rows, service_clients, store, backup_file>>

\* path.strip('/').split('/')
path_parts_of(path) == Split(Strip(path, "/"), "/")

\* '/'.join(path_parts[1:]) if len(path_parts) > 1 else ''
relative_path_of(path_parts) ==
    IF Len(path_parts) > 1 THEN Join(Tail(path_parts), "/") ELSE <<>>

\* container and relative path, the ACL permission; .strip() and .upper() on
\* None raise outside every try
SplitPath ==
    /\ main = "run" /\ pc = "split"
    /\ IF IsNone("path") \/ IsNone("permission")
       THEN End("raised", store)
       ELSE LET path_parts == path_parts_of(row.path)
            IN  /\ task' = [task EXCEPT
                       !.path_parts = path_parts,
                       !.container_name = path_parts[1],
                       !.relative_path = relative_path_of(path_parts),
                       !.acl_permission = parse_permission(row.permission)]
                /\ pc' = "env"
                /\ UNCHANGED <<main, cur, outcome, after>>
    /\ UNCHANGED <<csv_file, rows, service_clients, store, backup_file, trace,
                   faults>>

\* environment -> object id of its group; environment.lower() on None raises
\* outside every try; no id ends the request
ResolveEnv ==
    /\ main = "run" /\ pc = "env"
    /\ IF IsNone("environment")
       THEN End("raised", store) /\ UNCHANGED <<faults, trace>>
       ELSE \E ok \in BOOLEAN :
            LET group_name == env_group_name(row.environment)
                env_group_object_id == get_azure_ad_group_object_id(group_name, ok)
            IN  /\ ok \/ (CanFail /\ group_name \in DOMAIN Directory)
                /\ faults' = IF ok THEN faults ELSE faults + 1
                /\ trace' = Logged(<<Lookup("env", group_name, env_group_object_id)>>)
                /\ IF ~Resolved(env_group_object_id)
                   THEN End("skipped", store)
                   ELSE /\ task' = [task EXCEPT
                               !.env_group_object_id = env_group_object_id]
                        /\ pc' = "plan"
                        /\ UNCHANGED <<main, cur, outcome, after>>
    /\ UNCHANGED <<csv_file, rows, service_clients, store, backup_file>>

\* parent_paths_of with the range running one further, to the target itself
parent_paths_of_through_target(path_parts) ==
    IF Len(path_parts) > 2
    THEN [i \in 1..(Len(path_parts) - 1) |-> Join(SubSeq(path_parts, 2, i + 1), "/")]
    ELSE <<>>

\* parent_paths_of with the parents from the deepest to the shallowest
parent_paths_of_deepest_first(path_parts) ==
    IF Len(path_parts) > 2
    THEN [i \in 1..(Len(path_parts) - 2) |->
             Join(SubSeq(path_parts, 2, Len(path_parts) - i), "/")]
    ELSE <<>>

\* ['/'.join(path_parts[1:i+1]) for i in range(1, len(path_parts) - 1)] when
\* the path has more than two parts, [] otherwise
parent_paths_of(path_parts) ==
    IF Len(path_parts) > 2
    THEN [i \in 1..(Len(path_parts) - 2) |-> Join(SubSeq(path_parts, 2, i + 1), "/")]
    ELSE <<>>

\* [relative_path] + parent_paths if relative_path else parent_paths
paths_to_backup_of(relative_path, parent_paths) ==
    IF Truthy(relative_path) THEN <<relative_path>> \o parent_paths
    ELSE parent_paths

\* the paths to back up; without any, the backup is not called
PlanBackup ==
    /\ main = "run" /\ pc = "plan"
    /\ LET parent_paths == parent_paths_of(task.path_parts)
           paths_to_backup == paths_to_backup_of(task.relative_path, parent_paths)
       IN  /\ task' = [task EXCEPT !.parent_paths = parent_paths,
                                   !.paths_to_backup = paths_to_backup]
           /\ pc' = IF paths_to_backup # <<>> THEN "backup_open" ELSE "target_read"
    /\ UNCHANGED <<csv_file, rows, main, cur, service_clients, store, backup_file,
                   trace, outcome, after, faults>>

(* ------------------------------------------------------ backup_acls_to_csv *)

HeaderRow ==
    <<<<"storage">>, <<"container">>, <<"path">>, <<"group_id">>, <<"permissions">>>>

\* WithHeader without the test of the file's size
WithHeader_always(file) == file \o <<HeaderRow>>

\* if csvfile.tell() == 0: writer.writerow(header)
WithHeader(file) == IF file = <<>> THEN <<HeaderRow>> ELSE file

\* one backup row per entry of the ACL text that passes the group-entry test
RECURSIVE BackupRows(_, _, _, _)
BackupRows(entries, storage_account_name, container_name, path) ==
    IF entries = <<>> THEN <<>>
    ELSE LET acl == entries[1]
             parts == Split(acl, ":")
         IN  (IF IsGroupEntry(acl)
              THEN <<<<storage_account_name, container_name, OrRoot(path),
                       parts[2], parts[4]>>>>
              ELSE <<>>)
             \o BackupRows(Tail(entries), storage_account_name, container_name, path)

\* open(backup_file, 'a') and the header of an empty file; a failure to open
\* reaches the handler of apply_acls_to_path
BackupOpen ==
    /\ main = "run" /\ pc = "backup_open"
    /\ \/ /\ backup_file' = WithHeader(backup_file)
          /\ trace' = Logged(<<Call("open", "backup", <<>>, <<>>, "", "ok")>>)
          /\ task' = [task EXCEPT !.i = 1]
          /\ pc' = "backup_path"
          /\ UNCHANGED <<main, cur, outcome, after, faults>>
       \/ /\ CanFail
          /\ faults' = faults + 1
          /\ trace' = Logged(<<Call("open", "backup", <<>>, <<>>, "", "error")>>)
          /\ End("failed", store)
          /\ UNCHANGED <<backup_file>>
    /\ UNCHANGED <<csv_file, rows, service_clients, store>>

\* one turn of the loop over the paths: the rows of the path's ACL, nothing
\* for a directory that does not exist, nothing when the read fails
BackupPath ==
    /\ main = "run" /\ pc = "backup_path"
    /\ LET path == task.paths_to_backup[task.i]
           dir == TaskDir(path)
       IN  \/ /\ dir \in DOMAIN store
              /\ backup_file' = backup_file \o
                    BackupRows(Entries(store[dir]), row.storage,
                               task.container_name, path)
              /\ trace' = Logged(<<Call("get", "backup", path, store[dir], "", "ok")>>)
              /\ UNCHANGED faults
           \/ /\ dir \notin DOMAIN store
              /\ trace' = Logged(<<Call("get", "backup", path, <<>>, "", "missing")>>)
              /\ UNCHANGED <<backup_file, faults>>
           \/ /\ CanFail
              /\ faults' = faults + 1
              /\ trace' = Logged(<<Call("get", "backup", path, <<>>, "", "error")>>)
              /\ UNCHANGED <<backup_file>>
    /\ IF task.i < Len(task.paths_to_backup)
       THEN task' = [task EXCEPT !.i = @ + 1] /\ pc' = pc
       ELSE task' = [task EXCEPT !.i = 0] /\ pc' = "target_read"
    /\ UNCHANGED <<csv_file, rows, main, cur, service_clients, store, outcome, after>>

(* --------------------------------------------- the target and its parents *)

\* get_access_control, and create_directory when the directory is not found;
\* any other failure reaches the handler of apply_acls_to_path
ReadDirectory(role, path, field, next) ==
    LET dir == TaskDir(path)
    IN  \/ /\ dir \in DOMAIN store
           /\ task' = [task EXCEPT ![field] = store[dir]]
           /\ trace' = Logged(<<Call("get", role, path, store[dir], "", "ok")>>)
           /\ pc' = next
           /\ UNCHANGED <<main, cur, outcome, after, store, faults>>
        \/ /\ dir \notin DOMAIN store
           /\ store' = create_directory(store, dir)
           /\ task' = [task EXCEPT ![field] = <<>>]
           /\ trace' = Logged(<<Call("get", role, path, <<>>, "", "missing"),
                                Call("create", role, path, <<>>, "", "ok")>>)
           /\ pc' = next
           /\ UNCHANGED <<main, cur, outcome, after, faults>>
        \/ /\ dir \in DOMAIN store
           /\ CanFail
           /\ faults' = faults + 1
           /\ trace' = Logged(<<Call("get", role, path, <<>>, "", "error")>>)
           /\ End("failed", store)
           /\ UNCHANGED <<store>>
        \/ /\ dir \notin DOMAIN store
           /\ CanFail
           /\ faults' = faults + 1
           /\ trace' = Logged(<<Call("get", role, path, <<>>, "", "missing"),
                                Call("create", role, path, <<>>, "", "error")>>)
           /\ End("failed", store)
           /\ UNCHANGED <<store>>

\* set_access_control_recursive on the directory; a failure reaches the
\* handler of apply_acls_to_path
WriteDirectory(role, path, acl, mode, next, locals) ==
    LET dir == TaskDir(path)
    IN  \/ /\ store' = set_access_control_recursive(store, dir, acl, mode)
           /\ trace' = Logged(<<Call("write", role, path, acl, mode, "ok")>>)
           /\ task' = locals
           /\ pc' = next
           /\ UNCHANGED <<main, cur, outcome, after, faults>>
        \/ /\ CanFail
           /\ faults' = faults + 1
           /\ trace' = Logged(<<Call("write", role, path, acl, mode, "error")>>)
           /\ End("failed", store)
           /\ UNCHANGED <<store>>

\* should_update without force_update
should_update_unforced(force_update, current_perm, permission) ==
    \/ ~Truthy(current_perm)
    \/ (permission = <<"W">> /\ current_perm # <<"rwx">>)

\* force_update or not current_perm or (permission == 'W' and current_perm != 'rwx')
should_update(force_update, current_perm, permission) ==
    \/ force_update
    \/ ~Truthy(current_perm)
    \/ (permission = <<"W">> /\ current_perm # <<"rwx">>)

\* env_group_object_id not in parent_acl_dict or force_update
parent_should_update(parent_acl_dict, env_group_object_id, force_update) ==
    \/ env_group_object_id \notin DOMAIN parent_acl_dict
    \/ force_update

\* target_mode without force_propagation
target_mode_modify(force_propagation) == "modify"

\* 'set' if force_propagation else 'modify'
target_mode(force_propagation) == IF force_propagation THEN "set" ELSE "modify"

ReadTarget ==
    /\ main = "run" /\ pc = "target_read"
    /\ ReadDirectory("target", task.relative_path, "current_acls", "target_update")
    /\ UNCHANGED <<csv_file, rows, service_clients, backup_file>>

\* where the task goes after the target: its parents, or the end
AfterTarget == IF task.parent_paths # <<>> THEN "parent_read" ELSE "finish"

\* the decision on the target and its write
UpdateTarget ==
    /\ main = "run" /\ pc = "target_update"
    /\ LET acl_dict == parse_acls(task.current_acls)
           current_perm == Get(acl_dict, task.group_object_id, <<>>)
           new_acl == GroupAcl(task.group_object_id, task.acl_permission)
           locals == [task EXCEPT !.i = 1]
       IN  IF should_update(task.force_update, current_perm, row.permission)
           THEN WriteDirectory("target", task.relative_path,
                               updated_acls(task.current_acls, new_acl,
                                            task.group_object_id),
                               target_mode(task.force_propagation),
                               AfterTarget, locals)
           ELSE /\ task' = locals
                /\ pc' = AfterTarget
                /\ UNCHANGED <<main, cur, outcome, after, store, trace, faults>>
    /\ UNCHANGED <<csv_file, rows, service_clients, backup_file>>

ReadParent ==
    /\ main = "run" /\ pc = "parent_read"
    /\ ReadDirectory("parent", task.parent_paths[task.i], "parent_acls", "parent_update")
    /\ UNCHANGED <<csv_file, rows, service_clients, backup_file>>

\* where the task goes after a parent: the next parent, or the end
AfterParent == IF task.i < Len(task.parent_paths) THEN "parent_read" ELSE "finish"

\* the decision on one parent and its write
UpdateParent ==
    /\ main = "run" /\ pc = "parent_update"
    /\ LET parent_acl_dict == parse_acls(task.parent_acls)
           env_acl == GroupAcl(task.env_group_object_id, <<"--x">>)
           locals == [task EXCEPT !.i = @ + 1]
       IN  IF parent_should_update(parent_acl_dict, task.env_group_object_id,
                                   task.force_update)
           THEN WriteDirectory("parent", task.parent_paths[task.i],
                               updated_acls(task.parent_acls, env_acl,
                                            task.env_group_object_id),
                               "set", AfterParent, locals)
           ELSE /\ task' = locals
                /\ pc' = AfterParent
                /\ UNCHANGED <<main, cur, outcome, after, store, trace, faults>>
    /\ UNCHANGED <<csv_file, rows, service_clients, backup_file>>

\* the request was processed to its last line
Finish ==
    /\ main = "run" /\ pc = "finish"
    /\ End("ok", store)
    /\ UNCHANGED <<csv_file, rows, service_clients, store, backup_file, trace,
                   faults>>

Next ==
    \/ ReadCsv
    \/ ReadFields
    \/ InitClient
    \/ ResolveGroup
    \/ SplitPath
    \/ ResolveEnv
    \/ PlanBackup
    \/ BackupOpen
    \/ BackupPath
    \/ ReadTarget
    \/ UpdateTarget
    \/ ReadParent
    \/ UpdateParent
    \/ Finish
    \/ Gather

Spec == Init /\ [][Next]_vars

(* ------------------------------------------------ what the claims speak of *)

Tasks == DOMAIN outcome

\* the positions of task k's trace holding a call of this kind
CallsOf(k, op, role) ==
    {j \in DOMAIN trace[k] : trace[k][j].op = op /\ trace[k][j].role = role}

\* the entries of an ACL text that belong to group object_id
EntriesOf(acl, object_id) ==
    SelectSeq(Entries(acl), LAMBDA e : StartsWith(e, GroupPrefix(object_id)))

\* the permission the ACL text grants to group object_id, '' for none: the
\* last field of the group's entry
GrantOf(acl, object_id) ==
    LET own == EntriesOf(acl, object_id)
    IN  IF own = <<>> THEN <<>>
        ELSE LET parts == Split(own[Len(own)], ":") IN parts[Len(parts)]

\* at most one group entry per identity in an ACL text
NoDuplicateIdentity(acl) ==
    LET entries == Entries(acl)
        groups == {i \in DOMAIN entries : StartsWith(entries[i], <<"group", ":">>)}
        key == [i \in groups |-> EntryKey(entries[i])]
    IN  \A i, j \in groups : i # j => key[i] # key[j]

\* the request of row r asks for force_update
ForceOf(r) == "force_update" \notin r.none /\ Lower(r.force_update) = <<"true">>

\* the relative path of row r, and the directory of a path in r's container
RelOf(r) == relative_path_of(path_parts_of(r.path))
DirOf(r, path) == <<r.storage, path_parts_of(r.path)[1], path>>

\* the directories strictly between the container and the target of a
\* relative path: its proper prefixes that end before a "/"
AncestorsOf(rel) == {SubSeq(rel, 1, j - 1) : j \in {i \in DOMAIN rel : rel[i] = "/"}}

\* the object id of the environment group of row r
EnvIdOf(r) == Get(Directory, env_group_name(r.environment), NoneId)

\* the running task has just passed the decision on its target
AtTargetDone == main = "run" /\ pc \in {"parent_read", "finish"} /\ task.i = 1

\* the running task has just written its target
TargetJustWritten ==
    /\ AtTargetDone
    /\ trace[cur] # <<>>
    /\ LET last == trace[cur][Len(trace[cur])]
       IN  last.op = "write" /\ last.role = "target" /\ last.res = "ok"

(* ------------------------------------------------------------------ claims *)

\* C1: a Read request without force leaves the group's grant on the target as
\* r-x when it was none or r-x, and as rwx when it was rwx: right after the
\* target step of a request with permission R, the target grants the group
\* what it granted when the step read it, or r-x when it granted nothing.
C1_MonotonicReadGrant ==
    (AtTargetDone /\ row.permission = <<"R">> /\ ~task.force_update)
    => LET was == GrantOf(task.current_acls, task.group_object_id)
           is == GrantOf(store[TaskDir(task.relative_path)], task.group_object_id)
       IN  /\ was = <<>> => is = <<"r-x">>
           /\ was = <<"r-x">> => is = <<"r-x">>
           /\ was = <<"rwx">> => is = <<"rwx">>

\* C2: the same request applied twice in a row without force_update, both
\* times to the end, leaves the ACL of the target and of every ancestor after
\* the second application as it was after the first.
C2_Idempotent ==
    \A k \in Tasks :
        (/\ k + 1 \in Tasks
         /\ rows[k] = rows[k + 1]
         /\ outcome[k] = "ok" /\ outcome[k + 1] = "ok"
         /\ ~ForceOf(rows[k]))
        => \A path \in AncestorsOf(RelOf(rows[k])) \cup {RelOf(rows[k])} :
              LET dir == DirOf(rows[k], path)
              IN  /\ dir \in DOMAIN after[k]
                  /\ after[k + 1][dir] = after[k][dir]

\* C2 witness: both applications ran to the end and both wrote the target
C2_Witness ==
    \E k \in Tasks :
        /\ k + 1 \in Tasks
        /\ rows[k] = rows[k + 1]
        /\ outcome[k] = "ok" /\ outcome[k + 1] = "ok"
        /\ ~ForceOf(rows[k])
        /\ CallsOf(k, "write", "target") # {}
        /\ CallsOf(k + 1, "write", "target") # {}
        /\ CallsOf(k, "write", "parent") # {}

\* C3: the target write is issued exactly when force_update is true, or the
\* group has no entry in the target's current ACL, or the permission is W and
\* the group's current permission is not rwx; a W request without force on a
\* grant of rwx issues no write.
C3_UpdatePolicy ==
    AtTargetDone
    => LET was == GrantOf(task.current_acls, task.group_object_id)
       IN  TargetJustWritten
           <=> \/ task.force_update
               \/ was = <<>>
               \/ (row.permission = <<"W">> /\ was # <<"rwx">>)

\* the target step of task k has been taken: the target was read or created
\* and the decision on it is behind
TargetDecided(k) ==
    /\ \E j \in DOMAIN trace[k] :
          /\ trace[k][j].role = "target"
          /\ trace[k][j].op \in {"get", "create"}
          /\ trace[k][j].res = "ok"
    /\ ~(main = "run" /\ cur = k /\ pc = "target_update")

\* C4: a request with force_update whose identities resolve and whose target
\* was read (or created) always issues the target write, and the ACL it writes
\* holds one entry of the requested group, with r-x for R and rwx for W.
C4_ForceOverride ==
    \A k \in Tasks :
        (ForceOf(rows[k]) /\ TargetDecided(k))
        => /\ Cardinality(CallsOf(k, "write", "target")) = 1
           /\ \A j \in CallsOf(k, "write", "target") :
                LET own == EntriesOf(trace[k][j].acl, Directory[rows[k].group_name])
                IN  /\ Len(own) = 1
                    /\ rows[k].permission = <<"R">>
                       => own[1] = GroupAcl(Directory[rows[k].group_name], <<"r-x">>)
                    /\ rows[k].permission = <<"W">>
                       => own[1] = GroupAcl(Directory[rows[k].group_name], <<"rwx">>)

\* C4 witness: a forced R request has replaced a grant of rwx that parse_acls
\* read on the target
C4_Witness ==
    /\ TargetJustWritten
    /\ task.force_update
    /\ row.permission = <<"R">>
    /\ Get(parse_acls(task.current_acls), task.group_object_id, <<>>) = <<"rwx">>
    /\ GrantOf(store[TaskDir(task.relative_path)], task.group_object_id) = <<"r-x">>

\* C5: every ACL text the program writes, parsed by parse_acls, maps each
\* group identity of the text to the permission of its entry.
C5_WrittenAclRoundTrips ==
    \A k \in Tasks : \A j \in DOMAIN trace[k] :
        trace[k][j].op = "write"
        => \A e \in Range(Entries(trace[k][j].acl)) :
              StartsWith(e, <<"group", ":">>)
              => LET parts == Split(e, ":")
                 IN  Get(parse_acls(trace[k][j].acl), parts[2], <<>>)
                        = parts[Len(parts)]

\* C6: every ACL text the program writes, to a target or to an ancestor,
\* holds at most one group entry per identity.
C6_NoDuplicateIdentity ==
    \A k \in Tasks : \A j \in DOMAIN trace[k] :
        trace[k][j].op = "write" => NoDuplicateIdentity(trace[k][j].acl)

\* C6 witness: a target write has replaced the group's own entry and kept
\* an entry of another identity
C6_Witness ==
    /\ TargetJustWritten
    /\ EntriesOf(task.current_acls, task.group_object_id) # <<>>
    /\ Len(Entries(store[TaskDir(task.relative_path)])) >= 2

\* C7: every ACL write of a request, on the target (the container root
\* included) or on an ancestor, comes after the backup step of the same path
\* in the same request: the path's ACL was read for the backup, or the path
\* was found not to exist.
C7_BackupBeforeWrite ==
    \A k \in Tasks : \A j \in DOMAIN trace[k] :
        trace[k][j].op = "write"
        => \E i \in 1..(j - 1) :
              /\ trace[k][i].op = "get"
              /\ trace[k][i].role = "backup"
              /\ trace[k][i].path = trace[k][j].path
              /\ trace[k][i].res \in {"ok", "missing"}

\* the ancestors a request that ran to the end has processed are exactly the
\* directories between the container and the target, as many as the path has
\* segments between the two; a path of at most two segments touches no
\* directory but its target
AncestorsProcessed(k) ==
    LET parts == path_parts_of(rows[k].path)
        rel == relative_path_of(parts)
        anc == AncestorsOf(rel)
    IN  /\ {trace[k][j].path : j \in {i \in DOMAIN trace[k] : trace[k][i].role = "parent"}}
              = anc
        /\ Cardinality(anc) = IF Len(parts) > 2 THEN Len(parts) - 2 ELSE 0
        /\ \A path \in anc : <<rows[k].storage, parts[1], path>> \in DOMAIN after[k]
        /\ Len(parts) <= 2
           => \A j \in DOMAIN trace[k] :
                 trace[k][j].op \in {"get", "create", "write"}
                 => trace[k][j].path = rel

\* C8 as stated: after a request that ran to the end, each ancestor holds the
\* --x entry of the environment group.
C8_AncestorsHoldTraversalEntry ==
    \A k \in Tasks :
        outcome[k] = "ok"
        => /\ AncestorsProcessed(k)
           /\ \A path \in AncestorsOf(RelOf(rows[k])) :
                EntriesOf(after[k][DirOf(rows[k], path)], EnvIdOf(rows[k]))
                    = <<GroupAcl(EnvIdOf(rows[k]), <<"--x">>)>>

\* C8 amended: after a request that ran to the end, each ancestor holds an
\* entry of the environment group: the --x entry, and no other, when the
\* request wrote the ancestor, and otherwise, force_update being false, the
\* entry parse_acls found there, whatever its permission.
C8_AncestorsHoldEnvEntry ==
    \A k \in Tasks :
        outcome[k] = "ok"
        => /\ AncestorsProcessed(k)
           /\ \A path \in AncestorsOf(RelOf(rows[k])) :
                LET acl == after[k][DirOf(rows[k], path)]
                    env == EnvIdOf(rows[k])
                IN  IF \E j \in CallsOf(k, "write", "parent") : trace[k][j].path = path
                    THEN EntriesOf(acl, env) = <<GroupAcl(env, <<"--x">>)>>
                    ELSE /\ ~ForceOf(rows[k])
                         /\ env \in DOMAIN parse_acls(acl)

\* C8 witness: a request on a path with two ancestors ran to the end and
\* wrote both
C8_Witness ==
    \E k \in Tasks :
        /\ outcome[k] = "ok"
        /\ Cardinality(AncestorsOf(RelOf(rows[k]))) = 2
        /\ Cardinality(CallsOf(k, "write", "parent")) = 2

\* C8, the other case: such a request left both ancestors as they were
C8_WitnessSkipped ==
    \E k \in Tasks :
        /\ outcome[k] = "ok"
        /\ Cardinality(AncestorsOf(RelOf(rows[k]))) = 2
        /\ CallsOf(k, "write", "parent") = {}

\* C9: a request whose group lookup or environment-group lookup returns no
\* identity ends as skipped, and has made no call on the backup file or on
\* the storage: the store is as it was when the request began.
C9_NoMutationWithoutIdentity ==
    \A k \in Tasks :
        (\E j \in DOMAIN trace[k] :
            trace[k][j].op = "lookup" /\ trace[k][j].res = "none")
        => /\ \A j \in DOMAIN trace[k] : trace[k][j].op = "lookup"
           /\ outcome[k] = "skipped"
           /\ after[k] = after[k - 1]

\* C9 witness: the environment-group lookup failed after the group resolved
C9_Witness ==
    \E k \in Tasks :
        /\ outcome[k] = "skipped"
        /\ \E j \in CallsOf(k, "lookup", "env") : trace[k][j].res = "none"
        /\ \E j \in CallsOf(k, "lookup", "group") : trace[k][j].res = "ok"

\* C10: every failure while a request is processed is caught inside the
\* request: no request ends with an exception that leaves apply_acls_to_path,
\* and process_csv completes.
C10_FailuresStayInRequest ==
    /\ \A k \in Tasks : outcome[k] # "raised"
    /\ main # "raised"

\* the calls of task k that change the storage or the backup file
Mutations(k) ==
    {j \in DOMAIN trace[k] :
        \/ trace[k][j].op \in {"create", "write"}
        \/ trace[k][j].op = "open" /\ trace[k][j].res = "ok"}

\* C11: a request record that lacks a value for a required field is rejected
\* on its own: it ends as skipped, it has changed neither the storage nor the
\* backup file, and process_csv does not end with an exception.
C11_RecordWithoutValueRejected ==
    /\ \A k \in Tasks :
          (rows[k].none # {} /\ outcome[k] # "pending")
          => /\ outcome[k] = "skipped"
             /\ Mutations(k) = {}
             /\ after[k] = after[k - 1]
    /\ (\E k \in Tasks : rows[k].none # {}) => main # "raised"

\* the rows the backup of task k has written for the paths it read
BackedUpRows(k) ==
    UNION {Range(BackupRows(Entries(trace[k][j].acl), rows[k].storage,
                            path_parts_of(rows[k].path)[1], trace[k][j].path)) :
           j \in {i \in CallsOf(k, "get", "backup") : trace[k][i].res = "ok"}}

\* the backup file is empty, or its first row is the header, no other row is
\* the header, and every other row is one whole record of five fields that
\* the backup of some request wrote for an entry it read
BackupFileIntact ==
    backup_file # <<>>
    => LET written == UNION {BackedUpRows(k) : k \in Tasks}
       IN  /\ backup_file[1] = HeaderRow
           /\ \A i \in 2..Len(backup_file) :
                 /\ backup_file[i] # HeaderRow
                 /\ Len(backup_file[i]) = 5
                 /\ backup_file[i] \in written

\* C12: whatever the requests of a batch and the order of their backup steps,
\* the backup file holds the header exactly once, as its first row, every
\* other row is one whole record, and no row already in the file is changed or
\* lost: the file only grows at its end.
C12_BackupFileIntegrity ==
    /\ []BackupFileIntact
    /\ [][/\ Len(backup_file') >= Len(backup_file)
          /\ SubSeq(backup_file', 1, Len(backup_file)) = backup_file]_vars

\* C12 witness: two requests of the batch have both appended records
C12_Witness ==
    /\ BackupFileIntact
    /\ \E k1, k2 \in Tasks :
          /\ k1 # k2
          /\ BackedUpRows(k1) # {} /\ BackedUpRows(k2) # {}
          /\ Len(backup_file) >= 3
          /\ outcome[k1] # "pending" /\ outcome[k2] # "pending"

\* the object id of the group row r names
GroupIdOf(r) == Get(Directory, r.group_name, NoneId)

\* C13: when a request has issued its target write and has run to the end,
\* the target's ACL at the end of the request still holds the requested
\* group's entry with the requested permission: the ancestor writes that
\* follow the target write do not remove or replace it.
C13_TargetGrantSurvivesAncestors ==
    \A k \in Tasks :
        (/\ outcome[k] = "ok"
         /\ \E j \in CallsOf(k, "write", "target") : trace[k][j].res = "ok")
        => EntriesOf(after[k][DirOf(rows[k], RelOf(rows[k]))], GroupIdOf(rows[k]))
              = <<GroupAcl(GroupIdOf(rows[k]), parse_permission(rows[k].permission))>>

\* the positions of task k's trace where an ancestor was read (or created)
\* and the decision on it has been taken
ParentDecisions(k) ==
    {j \in CallsOf(k, "get", "parent") \cup CallsOf(k, "create", "parent") :
        /\ trace[k][j].res = "ok"
        /\ ~(main = "run" /\ cur = k /\ pc = "parent_update" /\ j = Len(trace[k]))}

\* the call after position j of task k's trace is a write on the same ancestor
ParentWrittenAfter(k, j) ==
    /\ j + 1 \in DOMAIN trace[k]
    /\ trace[k][j + 1].op = "write"
    /\ trace[k][j + 1].role = "parent"
    /\ trace[k][j + 1].path = trace[k][j].path

\* C14: an ancestor that holds an entry of the environment group, the --x
\* entry of an earlier run included, is not written when force_update is
\* false; an ancestor without one, and any ancestor when force_update is true,
\* is written with the --x entry of the environment group.
C14_AncestorRerunNoOp ==
    \A k \in Tasks : \A j \in ParentDecisions(k) :
        LET held == EntriesOf(trace[k][j].acl, EnvIdOf(rows[k]))
        IN  /\ ParentWrittenAfter(k, j) <=> (ForceOf(rows[k]) \/ held = <<>>)
            /\ ParentWrittenAfter(k, j)
               => EntriesOf(trace[k][j + 1].acl, EnvIdOf(rows[k]))
                     = <<GroupAcl(EnvIdOf(rows[k]), <<"--x">>)>>

\* the positions of task k's trace where an ancestor was read and found, or
\* created, in the order of the calls
ParentSteps(k) ==
    SelectSeq([j \in DOMAIN trace[k] |-> j],
              LAMBDA j : /\ trace[k][j].role = "parent"
                         /\ trace[k][j].op \in {"get", "create"}
                         /\ trace[k][j].res = "ok")

\* C15: a request whose target needed no write and that ran to the end has
\* still read, or created when absent, every ancestor, after the target step
\* and from the shallowest to the deepest, and has applied the traversal step
\* to each: the write of line 201 where the condition of line 194 holds.
C15_AncestorsProcessedWithoutTargetWrite ==
    \A k \in Tasks :
        (outcome[k] = "ok" /\ CallsOf(k, "write", "target") = {})
        => LET steps == ParentSteps(k)
               rel == RelOf(rows[k])
           IN  /\ {trace[k][steps[n]].path : n \in DOMAIN steps} = AncestorsOf(rel)
               /\ Len(steps) = Cardinality(AncestorsOf(rel))
               /\ \A n \in DOMAIN steps :
                     /\ n > 1 => Len(trace[k][steps[n - 1]].path)
                                    < Len(trace[k][steps[n]].path)
                     /\ \E t \in CallsOf(k, "get", "target") : t < steps[n]
                     /\ DirOf(rows[k], trace[k][steps[n]].path) \in DOMAIN after[k]
                     /\ ParentWrittenAfter(k, steps[n])
                        <=> parent_should_update(parse_acls(trace[k][steps[n]].acl),
                                                 EnvIdOf(rows[k]), ForceOf(rows[k]))

\* C15 witness: the target was left as it was and two ancestors were written
C15_Witness ==
    \E k \in Tasks :
        /\ outcome[k] = "ok"
        /\ CallsOf(k, "write", "target") = {}
        /\ Cardinality(AncestorsOf(RelOf(rows[k]))) = 2
        /\ Cardinality(CallsOf(k, "write", "parent")) = 2

\* the request of row r asks for force_propagation
PropagationOf(r) ==
    "force_propagation" \notin r.none /\ Lower(r.force_propagation) = <<"true">>

\* C16: a target write uses mode 'set' exactly when force_propagation is true
\* and mode 'modify' otherwise; an ancestor write uses mode 'set' whatever
\* force_propagation is.
C16_WriteModes ==
    \A k \in Tasks : \A j \in DOMAIN trace[k] :
        trace[k][j].op = "write"
        => /\ trace[k][j].role = "target"
              => /\ trace[k][j].mode = "set" <=> PropagationOf(rows[k])
                 /\ trace[k][j].mode = "modify" <=> ~PropagationOf(rows[k])
           /\ trace[k][j].role = "parent" => trace[k][j].mode = "set"

\* C16 witness: a batch holds a request with force_propagation that wrote its
\* target and an ancestor with 'set'; without force_propagation the target is
\* written with 'modify' and the ancestor with 'set'
C16_Witness ==
    \E k \in Tasks :
        /\ PropagationOf(rows[k])
        /\ \E j \in CallsOf(k, "write", "target") :
              trace[k][j].mode = "set" /\ trace[k][j].res = "ok"
        /\ \E j \in CallsOf(k, "write", "parent") :
              trace[k][j].mode = "set" /\ trace[k][j].res = "ok"

\* C16, the other case: no force_propagation, target 'modify', ancestor 'set'
C16_WitnessMerge ==
    \E k \in Tasks :
        /\ ~PropagationOf(rows[k])
        /\ \E j \in CallsOf(k, "write", "target") :
              trace[k][j].mode = "modify" /\ trace[k][j].res = "ok"
        /\ \E j \in CallsOf(k, "write", "parent") :
              trace[k][j].mode = "set" /\ trace[k][j].res = "ok"

\* the directory row r targets
TargetOf(r) == DirOf(r, RelOf(r))

\* tasks k1 and k2 have both gone through their read-modify-write of one and
\* the same target
SamePathPair(k1, k2) ==
    /\ k1 < k2
    /\ "path" \notin rows[k1].none /\ "path" \notin rows[k2].none
    /\ TargetDecided(k2) /\ TargetDecided(k1)
    /\ TargetOf(rows[k1]) = TargetOf(rows[k2])

\* C17: when two requests of a batch target the same path, for the same group
\* or for different groups, the ACL of that path holds at most one entry per
\* group identity, whichever of the two wrote last.
C17_SamePathNoDuplicate ==
    \A k2 \in Tasks : \A k1 \in 1..(k2 - 1) :
        SamePathPair(k1, k2)
        => LET target == TargetOf(rows[k1])
           IN  /\ target \in DOMAIN store
               /\ NoDuplicateIdentity(store[target])
               /\ \A k \in {k1, k2} :
                     Len(EntriesOf(store[target], GroupIdOf(rows[k]))) <= 1

\* C17 witness: two requests for different groups have both written the same
\* target, and its ACL holds the entry of each
C17_Witness ==
    \E k1, k2 \in Tasks :
        /\ SamePathPair(k1, k2)
        /\ GroupIdOf(rows[k1]) # GroupIdOf(rows[k2])
        /\ CallsOf(k1, "write", "target") # {} /\ CallsOf(k2, "write", "target") # {}
        /\ outcome[k1] = "ok" /\ outcome[k2] = "ok"
        /\ Len(EntriesOf(store[TargetOf(rows[k1])], GroupIdOf(rows[k1]))) = 1
        /\ Len(EntriesOf(store[TargetOf(rows[k1])], GroupIdOf(rows[k2]))) = 1

\* C17, the other case: two requests for the same group have both written
\* the same target
C17_WitnessSameGroup ==
    \E k1, k2 \in Tasks :
        /\ SamePathPair(k1, k2)
        /\ GroupIdOf(rows[k1]) = GroupIdOf(rows[k2])
        /\ rows[k1].permission # rows[k2].permission
        /\ CallsOf(k1, "write", "target") # {} /\ CallsOf(k2, "write", "target") # {}
        /\ outcome[k1] = "ok" /\ outcome[k2] = "ok"

\* task k ended at the failed creation of its DataLakeServiceClient: it was
\* skipped before its first lookup
InitFailed(k) == outcome[k] = "skipped" /\ trace[k] = <<>>

\* task k has gone past the client step
PastClient(k) == trace[k] # <<>>

\* the cache holds, for a storage account, the client created by the first
\* request for the account whose creation succeeded; every request that went
\* on did so with the account cached; a failed creation cached nothing
ClientCacheSound ==
    /\ \A a \in DOMAIN service_clients :
          LET c == service_clients[a]
          IN  /\ c \in Tasks /\ rows[c].storage = a
              /\ ~InitFailed(c)
              /\ \A k \in Tasks :
                    (k < c /\ rows[k].storage = a) => ~PastClient(k)
    /\ \A k \in Tasks :
          PastClient(k)
          => /\ rows[k].storage \in DOMAIN service_clients
             /\ service_clients[rows[k].storage] <= k
    /\ main \in {"gather", "done", "raised"}
       => \A k \in Tasks : outcome[k] # "pending"

\* C18: the client of a storage account is created at most once after a
\* creation that succeeded, and every later request for the account goes on
\* with that client: an entry of the cache is never replaced or removed. A
\* creation that fails stores nothing and ends that request only.
C18_ServiceClientCache ==
    /\ []ClientCacheSound
    /\ [][\A a \in DOMAIN service_clients :
             /\ a \in DOMAIN service_clients'
             /\ service_clients'[a] = service_clients[a]]_vars

\* C18 witness: the first request created the client and the second went on
\* with it
C18_Witness ==
    /\ DOMAIN service_clients # {}
    /\ \E k \in Tasks :
          /\ k > 1
          /\ service_clients[rows[k].storage] = 1
          /\ rows[1].storage = rows[k].storage
          /\ PastClient(k)

\* C18, the other case: a creation failed, and the next request for the
\* account created the client
C18_WitnessFailedInit ==
    \E k \in Tasks :
        /\ InitFailed(k)
        /\ k + 1 \in Tasks
        /\ rows[k + 1].storage \in DOMAIN service_clients
        /\ service_clients[rows[k + 1].storage] = k + 1
        /\ outcome[k + 1] = "ok"

\* the entries of an ACL text that belong to another identity than group
\* object_id, in the order of the text
OtherEntries(acl, object_id) ==
    SelectSeq(Entries(acl), LAMBDA e : EntryKey(e) # <<<<"group">>, object_id>>)

\* the identity a write of task k is made for, and the entry it adds
WriteIdOf(k, j) ==
    IF trace[k][j].role = "target" THEN GroupIdOf(rows[k]) ELSE EnvIdOf(rows[k])

WriteEntryOf(k, j) ==
    IF trace[k][j].role = "target"
    THEN GroupAcl(GroupIdOf(rows[k]), parse_permission(rows[k].permission))
    ELSE GroupAcl(EnvIdOf(rows[k]), <<"--x">>)

\* C19: the ACL text written to a target or to an ancestor is the path's
\* current ACL text, as the request read it, with every entry of another
\* identity unchanged and in its place, without the entry of the request's
\* group (target) or of the environment group (ancestor), and with the new
\* entry last.
C19_MergeFrame ==
    \A k \in Tasks : \A j \in DOMAIN trace[k] :
        trace[k][j].op = "write"
        => /\ j > 1
           /\ trace[k][j - 1].op \in {"get", "create"}
           /\ trace[k][j - 1].res = "ok"
           /\ trace[k][j - 1].role = trace[k][j].role
           /\ trace[k][j - 1].path = trace[k][j].path
           /\ Entries(trace[k][j].acl)
                 = OtherEntries(trace[k][j - 1].acl, WriteIdOf(k, j))
                   \o <<WriteEntryOf(k, j)>>

\* C19 witness: a write has replaced the group's own entry in an ACL text
\* that held two entries of other identities
C19_Witness ==
    \E k \in Tasks : \E j \in DOMAIN trace[k] :
        /\ trace[k][j].op = "write" /\ trace[k][j].res = "ok" /\ j > 1
        /\ Len(OtherEntries(trace[k][j - 1].acl, WriteIdOf(k, j))) >= 2
        /\ Len(Entries(trace[k][j - 1].acl))
              > Len(OtherEntries(trace[k][j - 1].acl, WriteIdOf(k, j)))
        /\ OtherEntries(trace[k][j - 1].acl, WriteIdOf(k, j))[1]
              # OtherEntries(trace[k][j - 1].acl, WriteIdOf(k, j))[2]

====
